---------------------------- MODULE Spec2Model ----------------------------
(***************************************************************************)
(* A model of the FDS drive emulator core, FdsKey/Core/Src/fdsemu.c:       *)
(* the image buffer and its block index, the load/save codec, the read     *)
(* engine, the write engine and the drive state machine fds_check_pins.    *)
(*                                                                         *)
(* The header fdsemu.h is not part of the sources at hand, so the values   *)
(* of the FDS_* macros are unknown.  They are given small values here,     *)
(* chosen so that every branch of the code is reachable; the literals of   *)
(* fdsemu.c itself (56, 2, 16, 0x0D, 0x0E, 0x80, 0x8408, ...) are kept.    *)
(***************************************************************************)
EXTENDS Integers, Sequences, FiniteSets, TLC

(***************************************************************************)
(* Macros of fdsemu.h (scaled).                                            *)
(***************************************************************************)
FDS_MAX_SIDE_SIZE == 112
FDS_MAX_BLOCKS == 8
FDS_ROM_SIDE_SIZE == 96
FDS_ROM_HEADER_SIZE == 16
FDS_FIRST_GAP_READ_BITS == 24
FDS_NEXT_GAPS_READ_BITS == 16
FDS_READ_BUFFER_SIZE == 512
FDS_WRITE_BUFFER_SIZE == 128
FDS_READ_IMPULSE_LENGTH == 2
FDS_NOT_READY_BYTES == 20
FDS_NOT_READY_TIME == 0
FDS_NOT_READY_TIME_ORIGINAL == 0
FDS_AUTOSAVE_DELAY == 0
FDS_THRESHOLD_1 == 2
FDS_THRESHOLD_2 == 3
FDS_WRITE_GAP_SKIP_BITS == 2
FDS_MULTI_WRITE_UNLICENSED_BITS == 3

(***************************************************************************)
(* Bounds of the model.                                                    *)
(***************************************************************************)
\* HAL_GetTick() reads MaxTick and the time stamps lie in 0..MaxTick (see Tick).
MaxTick == 1
\* The host sends at most MaxWriteBursts half-buffers of write pulses.
MaxWriteBursts == 1
\* The storage calls change the card at most MaxSaves times.
MaxSaves == 1
\* The foreground loads a side at most MaxLoads times.
MaxLoads == 1
\* With the drive alone the host sends at most MaxStreamBursts half-buffers.
MaxStreamBursts == 2

Byte == 0..255

\* (x >> k) & 1
BitOf(x, k) == (x \div (2 ^ k)) % 2

(***************************************************************************)
(* fds_crc: the shift register starts at 0x8000; the bytes of the data and *)
(* two more zero bytes are shifted in LSB first; a carry xors 0x8408, that *)
(* is, flips bits 15, 10 and 3.  byte holds the bits not yet shifted in.   *)
(***************************************************************************)
RECURSIVE CrcBits(_, _, _)
CrcBits(sum, byte, bit_index) ==
  IF bit_index >= 8 \/ sum < 0 THEN sum
  ELSE LET bit == byte % 2
           carry == sum % 2
           shifted == (sum \div 2) + bit * 32768
           next == IF carry = 1
                     THEN shifted
                          + (IF bit = 1 THEN -32768 ELSE 32768)
                          + (IF (shifted \div 1024) % 2 = 1 THEN -1024 ELSE 1024)
                          + (IF (shifted \div 8) % 2 = 1 THEN -8 ELSE 8)
                     ELSE shifted
       IN CrcBits(next, byte \div 2, bit_index + 1)

\* a ^ b on n bits
RECURSIVE XorBits(_, _, _)
XorBits(a, b, n) ==
  IF n = 0 THEN 0 ELSE ((a + b) % 2) + 2 * XorBits(a \div 2, b \div 2, n - 1)

\* XorBits on bytes, tabulated: Xor8[a + 1][b + 1] is a ^ b
Xor8 == [a \in 1..256 |-> [b \in 1..256 |-> XorBits(a - 1, b - 1, 8)] \o <<>>] \o <<>>

\* the 8 shifts for a zero byte, tabulated on the low byte of the register
CrcLow == [low \in 1..256 |-> CrcBits(low - 1, 0, 0)] \o <<>>

(***************************************************************************)
(* CrcBits(sum, byte, 0) from the two tables.  The shifts and the xor are  *)
(* linear over the bits, so the 8 shifts act on the three parts of their   *)
(* input apart: the low byte of the register gives CrcLow, the high byte   *)
(* moves down to the low byte, and the data byte, shifted in at bit 15,    *)
(* ends as the high byte; neither of the two sends a carry.                *)
(***************************************************************************)
CrcByte(sum, byte) ==
  LET low == CrcLow[(sum % 256) + 1]
  IN Xor8[(low % 256) + 1][(sum \div 256) + 1] + 256 * Xor8[(low \div 256) + 1][byte + 1]

\* the bytes from..to of the data and its two trailing zero bytes shifted in
RECURSIVE CrcBytes(_, _, _, _, _)
CrcBytes(sum, data, size, from, to) ==
  IF from > to \/ sum < 0 THEN sum
  ELSE IF from = to
    THEN CrcByte(sum, IF from < size THEN data[from] ELSE 0)
  ELSE LET mid == (from + to) \div 2
       IN CrcBytes(CrcBytes(sum, data, size, from, mid), data, size, mid + 1, to)

\* data is a function on 0..size-1 at least (the bytes of the block)
fds_crc(data, size) == CrcBytes(32768, data, size, 0, size + 1)


(***************************************************************************)
(* The image buffer fds_raw_data is a function on 0..FDS_MAX_SIDE_SIZE-1   *)
(* and fds_block_offsets one on 0..FDS_MAX_BLOCKS-1.  A store through an   *)
(* index outside the array leaves the array as it is (it lands in          *)
(* whatever the linker placed behind it); a load from outside reads 0.     *)
(***************************************************************************)
RawIndex == 0..(FDS_MAX_SIDE_SIZE - 1)
BlockIndex == 0..(FDS_MAX_BLOCKS - 1)

Peek(raw, i) == IF i \in RawIndex THEN raw[i] ELSE 0
Poke(raw, i, v) == IF i \in RawIndex THEN [raw EXCEPT ![i] = v] ELSE raw
OffsetAt(offs, i) == IF i \in BlockIndex THEN offs[i] ELSE 0
SetOffset(offs, i, v) == IF i \in BlockIndex THEN [offs EXCEPT ![i] = v] ELSE offs

ZeroImage == [i \in RawIndex |-> 0]
ZeroOffsets == [i \in BlockIndex |-> 0]

FirstGapBytes == FDS_FIRST_GAP_READ_BITS \div 8
NextGapBytes == FDS_NEXT_GAPS_READ_BITS \div 8

\* i == 0 ? FDS_FIRST_GAP_READ_BITS / 8 : FDS_NEXT_GAPS_READ_BITS / 8
GapLength(i) == IF i = 0 THEN FirstGapBytes ELSE NextGapBytes

(***************************************************************************)
(* fds_get_block_size: the result is a uint16_t.  The size of a file data  *)
(* block is read from bytes 0x0D and 0x0E of the payload of the file       *)
(* header block before it.                                                 *)
(***************************************************************************)
fds_get_block_size(raw, offs, i, include_gap, include_crc) ==
  LET crc == IF include_crc THEN 2 ELSE 0
  IN IF i = 0 THEN ((IF include_gap THEN FirstGapBytes ELSE 0) + 56 + crc) % 65536
     ELSE IF i = 1 THEN ((IF include_gap THEN NextGapBytes ELSE 0) + 2 + crc) % 65536
     ELSE IF i % 2 = 0 THEN ((IF include_gap THEN NextGapBytes ELSE 0) + 16 + crc) % 65536
     ELSE ((IF include_gap THEN NextGapBytes ELSE 0) + 1
            + (Peek(raw, OffsetAt(offs, i - 1) + NextGapBytes + 13)
               + 256 * Peek(raw, OffsetAt(offs, i - 1) + NextGapBytes + 14))
            + crc) % 65536

(***************************************************************************)
(* Files of the storage.  A file is a sequence of bytes; byte k of the     *)
(* file is element k + 1 of the sequence.                                  *)
(***************************************************************************)
Zeros(n) == [k \in 1..n |-> 0]

\* "*NINTENDO-HVC*"
Signature == <<42, 78, 73, 78, 84, 69, 78, 68, 79, 45, 72, 86, 67, 42>>

DiskInfoBlock == <<1>> \o Signature \o Zeros(41)
FileAmountBlock(n) == <<2, n>>
FileHeaderBlock(size) == <<3>> \o Zeros(12) \o <<size % 256, size \div 256, 0>>
FileDataBlock(data) == <<4>> \o data

PadTo(s, n) == s \o Zeros(n - Len(s))

\* one side, no files
RomA == PadTo(DiskInfoBlock \o FileAmountBlock(0), FDS_ROM_SIDE_SIZE)
\* a 16 byte header and one side with one file of one byte
RomB == Zeros(FDS_ROM_HEADER_SIZE)
        \o PadTo(DiskInfoBlock \o FileAmountBlock(1) \o FileHeaderBlock(1)
                 \o FileDataBlock(<<7>>), FDS_ROM_SIDE_SIZE)
\* one side whose disk info block has another signature
RomBadSignature == PadTo(<<1>> \o Zeros(55) \o FileAmountBlock(0), FDS_ROM_SIDE_SIZE)
\* one side that announces two files and holds one
RomShort == PadTo(DiskInfoBlock \o FileAmountBlock(2) \o FileHeaderBlock(1)
                  \o FileDataBlock(<<7>>), FDS_ROM_SIDE_SIZE)
\* a file whose size is no multiple of the side size
RomOddSize == Zeros(FDS_ROM_SIDE_SIZE + 3)

\* one side that announces one file and holds its header block only
RomHeaderOnly == PadTo(DiskInfoBlock \o FileAmountBlock(1) \o FileHeaderBlock(1),
                       FDS_ROM_SIDE_SIZE)
\* one side of zero bytes: its first byte is not the type of a disk info block
RomBlank == Zeros(FDS_ROM_SIDE_SIZE)

Roms == <<RomA, RomB, RomBadSignature, RomShort, RomOddSize, RomHeaderOnly, RomBlank>>
RomIds == 1..Len(Roms)
Sides == {0, 1}

(***************************************************************************)
(* The block loop of fds_load_side (while (1) ...).  st holds the image    *)
(* being built, the block index, the position in the file and min_blocks.  *)
(* The result carries the FRESULT in fr.                                   *)
(***************************************************************************)
\* for (i = 0; i < gap_length - 1; i++) fds_raw_data[fds_used_space++] = 0, with its size check
RECURSIVE LoadGap(_, _, _, _, _, _)
LoadGap(raw, used, i, gap_length, count, min_blocks) ==
  IF i >= gap_length - 1 THEN [fr |-> "FR_OK", raw |-> raw, used |-> used]
  ELSE LET raw1 == Poke(raw, used, 0)
           used1 == used + 1
       IN IF used1 - 1 >= FDS_MAX_SIDE_SIZE
            THEN IF count + 1 < min_blocks
                   THEN [fr |-> "FDSR_ROM_TOO_LARGE", raw |-> raw1, used |-> used1]
                   ELSE [fr |-> "FR_OK", raw |-> raw1, used |-> used1 - i]
            ELSE LoadGap(raw1, used1, i + 1, gap_length, count, min_blocks)

\* f_read of n bytes at position pos of the file into the image at used
ReadInto(raw, used, file, pos, n) ==
  [k \in RawIndex |-> IF k >= used /\ k < used + n /\ pos + (k - used) < Len(file)
                        THEN file[pos + (k - used) + 1]
                        ELSE raw[k]]

BytesRead(file, pos, n) ==
  IF pos >= Len(file) THEN 0 ELSE IF Len(file) - pos < n THEN Len(file) - pos ELSE n

SignatureOk(raw, used) == \A k \in 1..14 : Peek(raw, used + k) = Signature[k]

\* what the block loop leaves
LoadEnd(st, offs, res, raw, used) ==
  [fr |-> res, raw |-> raw, offs |-> offs, count |-> st.count, used |-> used]

\* if (fds_block_count + 1 < min_blocks) return error; else roll the gap back and break
LoadStop(st, offs, min_blocks, gap_length, error, raw, used) ==
  IF st.count + 1 < min_blocks
    THEN LoadEnd(st, offs, error, raw, used)
    ELSE LoadEnd(st, offs, "FR_OK", Poke(raw, used - 1, 0), used - gap_length)

RECURSIVE LoadBlocks(_, _)

\* the block is read: its length, its type and its signature are checked, its CRC appended
LoadCheck(st, file, offs, min_blocks, gap_length, block_type, block_size, raw2, used1, br) ==
  IF br # block_size THEN LoadStop(st, offs, min_blocks, gap_length, "FDSR_INVALID_ROM", raw2, used1)
  ELSE IF Peek(raw2, used1) # block_type
    THEN LoadStop(st, offs, min_blocks, gap_length, "FDSR_INVALID_ROM", raw2, used1)
  ELSE IF st.count = 0 /\ ~SignatureOk(raw2, used1)
    THEN LoadEnd(st, offs, "FDSR_INVALID_ROM", raw2, used1)
  ELSE LET crc == fds_crc([k \in 0..(block_size - 1) |-> Peek(raw2, used1 + k)], block_size)
       IN LoadBlocks([raw |-> Poke(Poke(raw2, used1 + block_size, crc % 256),
                                   used1 + block_size + 1, (crc \div 256) % 256),
                      offs |-> offs, count |-> st.count + 1,
                      used |-> used1 + block_size + 2, min |-> min_blocks,
                      pos |-> st.pos + br], file)

\* the gap is laid and terminated: the size check and the f_read of the block
LoadRead(st, file, offs, min_blocks, gap_length, block_size, raw1, used1) ==
  IF used1 + block_size + 2 > FDS_MAX_SIDE_SIZE
    THEN LoadStop(st, offs, min_blocks, gap_length, "FDSR_ROM_TOO_LARGE", raw1, used1)
    ELSE LoadCheck(st, file, offs, min_blocks, gap_length,
                   IF st.count = 0 THEN 1
                   ELSE IF st.count = 1 THEN 2
                   ELSE IF st.count % 2 = 0 THEN 3 ELSE 4,
                   block_size,
                   ReadInto(raw1, used1, file, st.pos, block_size), used1,
                   BytesRead(file, st.pos, block_size))

\* the gap terminator, and block_size = fds_get_block_size(fds_block_count, 0, 0)
LoadTerminate(st, file, offs, min_blocks, gap_length, raw1, used1) ==
  LoadRead(st, file, offs, min_blocks, gap_length,
           fds_get_block_size(raw1, offs, st.count, FALSE, FALSE), raw1, used1)

\* the gap before the data: gap is what the for loop leaves
LoadLay(st, file, offs, min_blocks, gap_length, gap) ==
  IF gap.fr # "FR_OK" THEN LoadEnd(st, offs, gap.fr, gap.raw, gap.used)
  ELSE LoadTerminate(st, file, offs, min_blocks, gap_length,
                     Poke(gap.raw, gap.used, 128), gap.used + 1)

\* one pass of the loop with min_blocks and fds_block_offsets[fds_block_count] set
LoadPass(st, file, offs, min_blocks, gap_length) ==
  IF st.used + gap_length > FDS_MAX_SIDE_SIZE
    THEN IF st.count + 1 < min_blocks
           THEN LoadEnd(st, offs, "FDSR_ROM_TOO_LARGE", st.raw, st.used)
           ELSE LoadEnd(st, offs, "FR_OK", st.raw, st.used)
    ELSE LoadLay(st, file, offs, min_blocks, gap_length,
                 LoadGap(st.raw, st.used, 0, gap_length, st.count, min_blocks))

LoadBlocks(st, file) ==
  LoadPass(st, file, SetOffset(st.offs, st.count, st.used),
           IF st.count = 2
             THEN Peek(st.raw, OffsetAt(st.offs, 1) + NextGapBytes + 1) * 2 + 2
             ELSE st.min,
           GapLength(st.count))

(***************************************************************************)
(* fds_load_side from the size check of the opened file to the end of the  *)
(* block loop: the FRESULT and the image, for the file, the side and the   *)
(* block index left by the load before.                                    *)
(***************************************************************************)
LoadOpenedFile(r) ==
  [fr |-> r.fr, raw |-> r.raw, offs |-> r.offs, count |-> r.count, used |-> r.used,
   opened |-> TRUE]

LoadImage(file, side, offs) ==
  LET rem == Len(file) % FDS_ROM_SIDE_SIZE
  IN IF rem # 0 /\ rem # 16
       THEN [fr |-> "FDSR_INVALID_ROM", raw |-> ZeroImage, offs |-> offs,
             count |-> 0, used |-> 0, opened |-> FALSE]
       ELSE LoadOpenedFile(
              LoadBlocks([raw |-> ZeroImage, offs |-> offs, count |-> 0, used |-> 0,
                          min |-> 0,
                          pos |-> (IF rem = FDS_ROM_HEADER_SIZE THEN FDS_ROM_HEADER_SIZE ELSE 0)
                                  + side * FDS_ROM_SIDE_SIZE], file))


(***************************************************************************)
(* The state.                                                              *)
(*                                                                         *)
(* fds holds the statics of fdsemu.c under their names without the fds_    *)
(* prefix, and what the module drives in the peripherals: read_dma and     *)
(* write_dma (the PWM DMA and the capture DMA are running), ready_pin,     *)
(* media_set_pin and writable_media_pin (1 is GPIO_PIN_SET, 0 is           *)
(* GPIO_PIN_RESET; the lines are active low).                              *)
(***************************************************************************)
VARIABLES
  fds,               \* the module's statics and the peripherals it drives
  scan_media_pin,    \* /SCAN_MEDIA as driven by the host: 0 is motor on
  write_pin,         \* /WRITE as driven by the host: 0 is writing
  fdskey_settings,   \* rewind_speed; backup_original is drawn at each storage call
  storage,           \* the files next to the ROM on the card
  fr,                \* what the last foreground call returned
  bursts,            \* half-buffers of write pulses captured so far
  saves,             \* foreground calls that changed the card so far
  loads,             \* calls of fds_load_side so far
  sent               \* the bytes the host sends to the write head

vars == <<fds, scan_media_pin, write_pin, fdskey_settings, storage, fr, bursts, saves, loads,
          sent>>

GPIO_PIN_RESET == 0
GPIO_PIN_SET == 1

States == {"FDS_OFF", "FDS_IDLE", "FDS_READ_WAIT_READY", "FDS_READ_WAIT_READY_TIMER",
           "FDS_READING", "FDS_WRITING_GAP", "FDS_WRITING", "FDS_WRITING_STOPPING",
           "FDS_SAVE_PENDING"}

\* what a handler reads from outside the module: the two host lines, the tick, the settings
Env == [scan_media : {0, 1}, write : {0, 1}, now : Nat, rewind_speed : STRING]

(***************************************************************************)
(* Read engine.                                                            *)
(***************************************************************************)
\* a reset that leaves the head where it is in every rewind mode
ResetReadingInPlace(m, e) == [m EXCEPT !.clock = 0, !.current_bit = 0, !.last_value = 0]

\* fds_reset_reading
fds_reset_reading(m, e) ==
  [m EXCEPT !.clock = 0,
            !.current_byte = IF e.rewind_speed = "REWIND_SPEED_TURBO" THEN 0 ELSE @,
            !.current_bit = 0,
            !.last_value = 0]

(***************************************************************************)
(* fds_dma_fill_read_buffer.  The loop runs on the fields it touches:      *)
(* r.clock, r.current_bit, r.current_byte and r.last_value, and r.rewound  *)
(* tells that a pass took the rewind branch, which sets the READY line,    *)
(* fds_not_ready_time and fds_state to the same values each time.          *)
(***************************************************************************)
\* 1 << k for the bit indices of a byte
Pow2 == <<1, 2, 4, 8, 16, 32, 64, 128>>

\* a pass that rewinds one byte early in TURBO mode
ReadPhaseRewindsEarly(r, raw, used_space, e) ==
  LET clock == 1 - r.clock
      bit == (Peek(raw, r.current_byte) \div Pow2[(r.current_bit \div 2) + 1]) % 2
      value == IF bit = clock THEN 0 ELSE 1
      current_byte == (r.current_byte + 1) % FDS_MAX_SIDE_SIZE
  IN IF r.current_bit + 1 <= 15
       THEN [r EXCEPT !.clock = clock, !.last_value = value, !.current_bit = @ + 1]
     ELSE IF current_byte = 0
             \/ (e.rewind_speed = "REWIND_SPEED_TURBO"
                 /\ current_byte >= used_space + FDS_NOT_READY_BYTES)
       THEN [clock |-> 0,
             current_byte |-> IF e.rewind_speed = "REWIND_SPEED_TURBO" THEN 0 ELSE current_byte,
             current_bit |-> 0, last_value |-> 0, rewound |-> TRUE]
     ELSE [clock |-> clock, current_byte |-> current_byte, current_bit |-> 0,
           last_value |-> value, rewound |-> r.rewound]

\* one pass of the while (length) loop
ReadPhase(r, raw, used_space, e) ==
  LET clock == 1 - r.clock
      bit == (Peek(raw, r.current_byte) \div Pow2[(r.current_bit \div 2) + 1]) % 2
      value == IF bit = clock THEN 0 ELSE 1
      current_byte == (r.current_byte + 1) % FDS_MAX_SIDE_SIZE
  IN IF r.current_bit + 1 <= 15
       THEN [r EXCEPT !.clock = clock, !.last_value = value, !.current_bit = @ + 1]
     ELSE IF current_byte = 0
             \/ (e.rewind_speed = "REWIND_SPEED_TURBO"
                 /\ current_byte > used_space + FDS_NOT_READY_BYTES)
       \* fds_reset_reading
       THEN [clock |-> 0,
             current_byte |-> IF e.rewind_speed = "REWIND_SPEED_TURBO" THEN 0 ELSE current_byte,
             current_bit |-> 0, last_value |-> 0, rewound |-> TRUE]
     ELSE [clock |-> clock, current_byte |-> current_byte, current_bit |-> 0,
           last_value |-> value, rewound |-> r.rewound]

\* the value the pass stores in fds_read_buffer[pos]
ReadSlot(m) ==
  LET clock == 1 - m.clock
      bit == BitOf(Peek(m.raw_data, m.current_byte), m.current_bit \div 2)
      value == (bit + clock) % 2
  IN IF value = 1 /\ m.last_value = 0 THEN FDS_READ_IMPULSE_LENGTH - 1 ELSE 0

\* length passes of the loop
RECURSIVE ReadPhases(_, _, _, _, _)
ReadPhases(r, raw, used_space, e, length) ==
  IF length <= 0 THEN r
  ELSE IF length = 1 THEN ReadPhase(r, raw, used_space, e)
  ELSE LET half == ReadPhases(r, raw, used_space, e, length \div 2)
       IN IF half.current_bit < 0 THEN half
          ELSE ReadPhases(half, raw, used_space, e, length - (length \div 2))

\* the state is looked at once, before the loop
fds_dma_fill_read_buffer(m, e, length) ==
  IF m.state \in {"FDS_READING", "FDS_READ_WAIT_READY"}
    THEN LET r == ReadPhases([clock |-> m.clock, current_byte |-> m.current_byte,
                              current_bit |-> m.current_bit, last_value |-> m.last_value,
                              rewound |-> FALSE],
                             m.raw_data, m.used_space, e, length)
             m1 == [m EXCEPT !.clock = r.clock, !.current_byte = r.current_byte,
                             !.current_bit = r.current_bit, !.last_value = r.last_value]
         IN IF r.rewound
              THEN [m1 EXCEPT !.ready_pin = GPIO_PIN_SET, !.not_ready_time = e.now,
                              !.state = "FDS_READ_WAIT_READY_TIMER"]
              ELSE m1
    ELSE m

\* fds_stop_reading
fds_stop_reading(m) == [m EXCEPT !.read_dma = FALSE]

\* fds_start_reading
fds_start_reading(m, e) ==
  LET m1 == fds_dma_fill_read_buffer([m EXCEPT !.current_bit = 0], e, FDS_READ_BUFFER_SIZE)
  IN [m1 EXCEPT !.read_dma = TRUE, !.state = "FDS_READING"]

\* a stop that leaves the capture DMA running
KeepWriting(m) == m

\* fds_stop_writing
fds_stop_writing(m) == [m EXCEPT !.write_dma = FALSE]

\* a stop that leaves the capture DMA running
StopReadingOnly(m) ==
  [fds_stop_reading(m) EXCEPT !.ready_pin = GPIO_PIN_SET, !.state = "FDS_IDLE"]

\* a stop of the two engines that leaves fds_state as it is
StopEnginesOnly(m) ==
  [fds_stop_writing(fds_stop_reading(m)) EXCEPT !.ready_pin = GPIO_PIN_SET]

\* fds_stop
fds_stop(m) ==
  [fds_stop_writing(fds_stop_reading(m)) EXCEPT !.ready_pin = GPIO_PIN_SET,
                                                !.state = "FDS_IDLE"]

(***************************************************************************)
(* Write engine.                                                           *)
(***************************************************************************)
\* the for (i = 0;; i++) loop of fds_reset_writing: the block index, the
\* block count and the current block
RECURSIVE CurrentBlock(_, _)
CurrentBlock(m, i) ==
  IF i >= m.block_count
    THEN [offs |-> SetOffset(m.block_offsets, i,
                     IF i = 0 THEN 0
                     ELSE OffsetAt(m.block_offsets, i - 1)
                          + fds_get_block_size(m.raw_data, m.block_offsets, i - 1, TRUE, TRUE)),
          current_block |-> m.block_count,
          count |-> m.block_count + 1]
    ELSE LET block_size == fds_get_block_size(m.raw_data, m.block_offsets, i, TRUE, TRUE)
         IN IF m.current_byte < OffsetAt(m.block_offsets, i) + block_size
              THEN [offs |-> m.block_offsets, current_block |-> i, count |-> m.block_count]
              ELSE CurrentBlock(m, i + 1)

\* memset(fds_raw_data + from, 0, FDS_MAX_SIDE_SIZE - from)
EraseFrom(raw, from) == [k \in RawIndex |-> IF k >= from THEN 0 ELSE raw[k]]

\* the gap before the data: gap_length - 1 zero bytes and the terminator 0x80
LayGap(raw, at, gap_length) ==
  [k \in RawIndex |-> IF k >= at /\ k < at + gap_length - 1 THEN 0
                      ELSE IF k = at + gap_length - 1 THEN 128
                      ELSE raw[k]]

(***************************************************************************)
(* fds_reset_writing, in the order of its statements: the block search,    *)
(* the recomputed fds_used_space with its size check, the bounds of the    *)
(* current block, and the gap laid before its data.                        *)
(***************************************************************************)
\* from "if (fds_current_block_end < fds_current_byte)" to the end
ResetWritingGap(m3, fds_current_block, gap_length) ==
  IF m3.current_block_end < m3.current_byte
    THEN \* this should not happen
         [m3 EXCEPT !.ready_pin = GPIO_PIN_SET]
    ELSE LET trim == fds_current_block + 1 < m3.block_count
                     /\ m3.current_block_end # OffsetAt(m3.block_offsets, fds_current_block + 1)
             raw1 == IF trim
                       THEN EraseFrom(m3.raw_data,
                                      OffsetAt(m3.block_offsets, fds_current_block + 1))
                       ELSE m3.raw_data
         IN [m3 EXCEPT !.block_count = IF trim THEN fds_current_block + 1 ELSE @,
                       !.raw_data = LayGap(raw1, m3.current_byte, gap_length),
                       !.current_byte = m3.current_byte + gap_length,
                       !.write_gap_skip = 0,
                       !.changed = 1]

\* fds_current_byte and fds_current_block_end of the current block
ResetWritingBounds(m2, fds_current_block) ==
  LET current_byte == OffsetAt(m2.block_offsets, fds_current_block)
      gap_length == GapLength(fds_current_block)
      current_block_end ==
        (current_byte + gap_length
         + fds_get_block_size(m2.raw_data, m2.block_offsets, fds_current_block, FALSE, TRUE))
        % FDS_MAX_SIDE_SIZE
  IN ResetWritingGap([m2 EXCEPT !.current_byte = current_byte,
                                !.current_block_end = current_block_end],
                     fds_current_block, gap_length)

\* fds_used_space recomputed from the last block; too large: block_count-- and fds_stop()
ResetWritingUsed(m1, fds_current_block) ==
  LET used == OffsetAt(m1.block_offsets, m1.block_count - 1)
              + fds_get_block_size(m1.raw_data, m1.block_offsets, m1.block_count - 1, TRUE, TRUE)
  IN ResetWritingBounds(IF used > FDS_MAX_SIDE_SIZE
                          THEN fds_stop([m1 EXCEPT !.used_space = used, !.block_count = @ - 1])
                          ELSE [m1 EXCEPT !.used_space = used],
                        fds_current_block)

\* the block search done: found is what CurrentBlock returns
ResetWritingFound(m, found) ==
  ResetWritingUsed([m EXCEPT !.block_offsets = found.offs, !.block_count = found.count],
                   found.current_block)

\* fds_reset_writing
fds_reset_writing(m, e) == ResetWritingFound(m, CurrentBlock(m, 0))

\* fds_start_writing
fds_start_writing(m, e) ==
  [fds_reset_writing(m, e) EXCEPT !.state = "FDS_WRITING_GAP", !.write_dma = TRUE]

\* a write_bit that ends the block in FDS_WRITING_STOPPING whatever /WRITE is
WriteBitNeverReads(m, e, bit) ==
  LET m1 == [m EXCEPT !.raw_data = Poke(@, m.current_byte,
                                        (Peek(@, m.current_byte) \div 2) + bit * 128),
                      !.current_bit = (@ + 1) % 256]
  IN IF m1.current_bit > 7
       THEN LET m2 == [m1 EXCEPT !.current_bit = 0,
                                 !.current_byte = (@ + 1) % FDS_MAX_SIDE_SIZE]
            IN IF m2.current_byte >= m2.current_block_end
                 THEN IF e.scan_media = 0
                        THEN [m2 EXCEPT !.write_gap_skip = 0,
                                        !.state = "FDS_WRITING_STOPPING"]
                        ELSE fds_stop(m2)
                 ELSE m2
       ELSE m1

\* fds_write_bit
fds_write_bit(m, e, bit) ==
  LET m1 == [m EXCEPT !.raw_data = Poke(@, m.current_byte,
                                        (Peek(@, m.current_byte) \div 2) + bit * 128),
                      !.current_bit = (@ + 1) % 256]
  IN IF m1.current_bit > 7
       THEN LET m2 == [m1 EXCEPT !.current_bit = 0,
                                 !.current_byte = (@ + 1) % FDS_MAX_SIDE_SIZE]
            IN IF m2.current_byte >= m2.current_block_end
                 THEN \* end of block
                      IF e.scan_media = 0
                        THEN IF e.write = 1
                               THEN fds_start_reading(
                                      fds_stop_writing([m2 EXCEPT !.state = "FDS_WRITING_STOPPING"]), e)
                               ELSE [m2 EXCEPT !.write_gap_skip = 0,
                                               !.state = "FDS_WRITING_STOPPING"]
                        ELSE fds_stop(m2)
                 ELSE m2
       ELSE m1

\* a band that takes a pause of FDS_THRESHOLD_1 for a short one
PulseBandInclusive(pulse) ==
  IF pulse <= FDS_THRESHOLD_1 THEN 2 ELSE IF pulse <= FDS_THRESHOLD_2 THEN 3 ELSE 4

\* the three possible pause durations between impulses: 10us, 15us, 20us
PulseBand(pulse) ==
  IF pulse < FDS_THRESHOLD_1 THEN 2 ELSE IF pulse < FDS_THRESHOLD_2 THEN 3 ELSE 4

\* fds_write_impulse
fds_write_impulse(m, e, pulse) ==
  IF m.state = "FDS_WRITING_STOPPING"
    THEN LET skip == IF pulse < FDS_THRESHOLD_1 THEN (m.write_gap_skip + 1) % 65536 ELSE 0
             m1 == [m EXCEPT !.write_gap_skip = skip]
         IN IF skip >= FDS_MULTI_WRITE_UNLICENSED_BITS
              THEN fds_reset_writing(m1, e)
              ELSE m1
  ELSE IF m.state = "FDS_WRITING_GAP"
    THEN IF m.write_gap_skip < FDS_WRITE_GAP_SKIP_BITS
           THEN [m EXCEPT !.write_gap_skip = @ + 1]
         ELSE IF pulse >= FDS_THRESHOLD_1
           THEN [m EXCEPT !.write_carrier = 0, !.current_bit = 0, !.state = "FDS_WRITING"]
         ELSE m
  ELSE IF m.state = "FDS_WRITING"
    THEN LET l == m.write_carrier + PulseBand(pulse)
         IN CASE l = 130 -> [fds_write_bit(m, e, 0) EXCEPT !.write_carrier = 128]
              [] l = 131 -> [fds_write_bit(m, e, 1) EXCEPT !.write_carrier = 0]
              [] l = 132 -> m
              [] l = 2 -> [fds_write_bit(m, e, 1) EXCEPT !.write_carrier = 0]
              [] l = 3 -> [fds_write_bit(fds_write_bit(m, e, 0), e, 0)
                             EXCEPT !.write_carrier = 128]
              [] l = 4 -> [fds_write_bit(fds_write_bit(m, e, 0), e, 1)
                             EXCEPT !.write_carrier = 0]
              [] OTHER -> m
  ELSE \* invalid state, stop writing
       fds_stop_writing(m)

\* fds_dma_parse_write_buffer over the pulses from..to of the captured half
RECURSIVE ParsePulses(_, _, _, _, _)
ParsePulses(m, e, pulses, from, to) ==
  IF from > to THEN m
  ELSE IF from = to THEN fds_write_impulse(m, e, pulses[from])
  ELSE LET mid == (from + to) \div 2
           half == ParsePulses(m, e, pulses, from, mid)
       IN IF half.current_bit < 0 THEN half
          ELSE ParsePulses(half, e, pulses, mid + 1, to)

fds_dma_parse_write_buffer(m, e, pulses) == ParsePulses(m, e, pulses, 1, Len(pulses))

(***************************************************************************)
(* Drive state machine.                                                    *)
(***************************************************************************)
\* a return from the saving state whether the image was saved or not
ReturnFromSavingUnsaved(m) ==
  IF m.state = "FDS_SAVE_PENDING" THEN [m EXCEPT !.state = "FDS_IDLE"] ELSE m

\* no return from the saving state with the motor on
StayInSaving(m) == m

\* return from saving state if saved
ReturnFromSaving(m) ==
  IF m.state = "FDS_SAVE_PENDING" /\ m.changed = 0 THEN [m EXCEPT !.state = "FDS_IDLE"] ELSE m

\* fds_check_pins
fds_check_pins(m, e) ==
  IF e.scan_media = 1
    THEN \* motor stop
         CASE m.state \in {"FDS_OFF", "FDS_WRITING"} -> m
           [] m.state = "FDS_IDLE" ->
                IF m.changed # 0 /\ m.last_action_time + FDS_AUTOSAVE_DELAY < e.now
                  THEN [m EXCEPT !.state = "FDS_SAVE_PENDING"]
                  ELSE m
           [] m.state = "FDS_SAVE_PENDING" ->
                IF m.changed = 0 THEN [m EXCEPT !.state = "FDS_IDLE"] ELSE m
           [] OTHER ->
                IF e.rewind_speed = "REWIND_SPEED_TURBO"
                  THEN fds_reset_reading(fds_stop(m), e)
                  ELSE fds_stop(m)
    ELSE \* motor on
         LET m1 == ReturnFromSaving(m)
             m2 == IF e.write = 1
                     THEN \* reading
                          CASE m1.state = "FDS_IDLE" ->
                                 IF e.rewind_speed = "REWIND_SPEED_TURBO" \/ m1.current_byte = 0
                                   THEN fds_reset_reading(
                                          [m1 EXCEPT !.not_ready_time = e.now,
                                                     !.state = "FDS_READ_WAIT_READY_TIMER"], e)
                                   ELSE [fds_start_reading(m1, e)
                                           EXCEPT !.state = "FDS_READ_WAIT_READY"]
                            [] m1.state = "FDS_READ_WAIT_READY_TIMER" ->
                                 IF m1.not_ready_time
                                    + (IF e.rewind_speed = "REWIND_SPEED_ORIGINAL"
                                         THEN FDS_NOT_READY_TIME_ORIGINAL
                                         ELSE FDS_NOT_READY_TIME) < e.now
                                   THEN fds_start_reading(
                                          [m1 EXCEPT !.ready_pin = GPIO_PIN_RESET], e)
                                   ELSE m1
                            [] m1.state = "FDS_WRITING_STOPPING" ->
                                 fds_start_reading(fds_stop_writing(m1), e)
                            [] OTHER -> m1
                     ELSE \* writing
                          IF m1.state \in {"FDS_IDLE", "FDS_READING", "FDS_READ_WAIT_READY",
                                           "FDS_READ_WAIT_READY_TIMER"}
                            THEN fds_start_writing(fds_stop_reading(m1), e)
                            ELSE m1
         IN [m2 EXCEPT !.last_action_time = e.now]

(***************************************************************************)
(* Storage.  storage.files[r] is ROM file r, storage.alt[r] the side file  *)
(* kept for it (<name>.bak or EDN8\gamedata\<name>\bram.srm, as the       *)
(* setting backup_original has it) when storage.alt_exists[r], and         *)
(* storage.dirs the ROM files r whose directory EDN8\gamedata\<name>       *)
(* exists.                                                                 *)
(***************************************************************************)
\* f_write of data at position pos of a file opened with FA_WRITE
WriteAt(file, pos, data) ==
  LET n == IF pos + Len(data) > Len(file) THEN pos + Len(data) ELSE Len(file)
  IN [k \in 1..n |-> IF k > pos /\ k <= pos + Len(data) THEN data[k - pos]
                     ELSE IF k <= Len(file) THEN file[k] ELSE 0]

\* the bytes from position pos of a file to its end
FileFrom(file, pos) == [k \in 1..(IF Len(file) > pos THEN Len(file) - pos ELSE 0) |-> file[k + pos]]

\* block i with the two CRC bytes the image keeps behind it
BlockWithCrc(m, i) ==
  LET at == OffsetAt(m.block_offsets, i) + GapLength(i)
  IN [k \in 1..fds_get_block_size(m.raw_data, m.block_offsets, i, FALSE, TRUE)
        |-> Peek(m.raw_data, at + k - 1)]

\* what f_write is given for block i: fds_get_block_size(i, 0, 0) bytes from behind the gap
BlockPayload(m, i) ==
  LET at == OffsetAt(m.block_offsets, i) + GapLength(i)
  IN [k \in 1..fds_get_block_size(m.raw_data, m.block_offsets, i, FALSE, FALSE)
        |-> Peek(m.raw_data, at + k - 1)]

RECURSIVE SavedBytes(_, _)
SavedBytes(m, i) ==
  IF i >= m.block_count THEN <<>> ELSE BlockPayload(m, i) \o SavedBytes(m, i + 1)

\* the body of the CRC loop of fds_save for block i
BlockCrcOk(m, i) ==
  LET block_size == fds_get_block_size(m.raw_data, m.block_offsets, i, FALSE, FALSE)
      at == OffsetAt(m.block_offsets, i) + GapLength(i)
      valid_crc == fds_crc([k \in 0..(block_size - 1) |-> Peek(m.raw_data, at + k)], block_size)
  IN valid_crc = Peek(m.raw_data, at + block_size)
                 + 256 * Peek(m.raw_data, at + block_size + 1)

(***************************************************************************)
(* fds_save.  fail names the storage call that fails, if any.  The result  *)
(* is the module's state, the storage and the FRESULT; ops lists the       *)
(* storage calls made that create or change a file or a directory.         *)
(***************************************************************************)
\* the checks at the head of fds_save: what they return, or "go" when they pass
SaveCheck(m) ==
  IF m.changed = 0 THEN "FR_OK"
  ELSE IF m.readonly # 0 THEN "FDSR_READ_ONLY"
  ELSE IF \E i \in 0..(m.block_count - 1) : ~BlockCrcOk(m, i) THEN "FDSR_WRONG_CRC"
  ELSE "go"

\* what a foreground call leaves: the module's state, the storage, the FRESULT
\* and the storage calls made that create or change a file or a directory
CallResult(m, sto, res, ops) == [m |-> m, storage |-> sto, fr |-> res, ops |-> ops]

\* a failed storage call that also clears fds_changed
SaveFailedClean(m, sto, ops) ==
  CallResult([m EXCEPT !.state = "FDS_IDLE", !.changed = 0], sto, "FR_DISK_ERR", ops)

\* a storage call of fds_save failed: fds_state = FDS_IDLE; return fr
SaveFailed(m, sto, ops) == CallResult([m EXCEPT !.state = "FDS_IDLE"], sto, "FR_DISK_ERR", ops)

\* f_open of the destination, the f_write of every block, f_close
SaveWrite(m, sto2, ops2, e, everdrive, fail) ==
  IF fail = "open" THEN SaveFailed(m, sto2, ops2)
  ELSE IF fail = "write" /\ m.block_count > 0 THEN SaveFailed(m, sto2, ops2)
  ELSE
  LET r == m.filename
      dest == IF everdrive THEN sto2.alt[r] ELSE sto2.files[r]
      written == WriteAt(dest, (Len(dest) % FDS_ROM_SIDE_SIZE) + m.side * FDS_ROM_SIDE_SIZE,
                         SavedBytes(m, 0))
      sto3 == IF everdrive THEN [sto2 EXCEPT !.alt[r] = written]
              ELSE [sto2 EXCEPT !.files[r] = written]
      ops3 == IF m.block_count > 0 THEN ops2 \o <<"f_write">> ELSE ops2
  IN IF fail = "close" THEN SaveFailed(m, sto3, ops3)
     ELSE CallResult(fds_check_pins([m EXCEPT !.changed = 0], e), sto3, "FR_OK", ops3)

\* the copy of the original kept beside it, made when there is none yet
SaveBackup(m, sto1, ops1, e, backup_original, fail) ==
  LET r == m.filename
      everdrive == backup_original = "SAVES_EVERDRIVE"
      copy == backup_original \in {"SAVES_REWRITE_BACKUP", "SAVES_EVERDRIVE"}
              /\ ~sto1.alt_exists[r]
      original == sto1.files[r]
      copied == IF everdrive /\ Len(original) % FDS_ROM_SIDE_SIZE = FDS_ROM_HEADER_SIZE
                  THEN FileFrom(original, FDS_ROM_HEADER_SIZE)
                  ELSE original
  IN IF copy /\ fail = "backup" THEN SaveFailed(m, sto1, ops1)
     ELSE IF copy
       THEN SaveWrite(m, [sto1 EXCEPT !.alt_exists[r] = TRUE, !.alt[r] = copied],
                      ops1 \o <<"f_open FA_CREATE_NEW", "f_write">>, e, everdrive, fail)
     ELSE SaveWrite(m, sto1, ops1, e, everdrive, fail)

\* fds_save with the directory of the EverDrive saves made before the checks
SaveFromMkdirFirst(check, m, sto, e, backup_original, fail) ==
  LET r == m.filename
      everdrive == backup_original = "SAVES_EVERDRIVE"
      sto1 == IF everdrive THEN [sto EXCEPT !.dirs = @ \cup {r}] ELSE sto
      ops1 == IF everdrive /\ r \notin sto.dirs THEN <<"f_mkdir">> ELSE <<>>
  IN IF check # "go" THEN CallResult(m, sto1, check, ops1)
     ELSE IF everdrive /\ fail = "mkdir" THEN SaveFailed(m, sto, <<>>)
     ELSE SaveBackup(m, sto1, ops1, e, backup_original, fail)

\* fds_save, given what its checks return for m
SaveFrom(check, m, sto, e, backup_original, fail) ==
  LET r == m.filename
      everdrive == backup_original = "SAVES_EVERDRIVE"
  IN IF check # "go" THEN CallResult(m, sto, check, <<>>)
     ELSE IF everdrive /\ fail = "mkdir" THEN SaveFailed(m, sto, <<>>)
     ELSE IF everdrive
       THEN SaveBackup(m, [sto EXCEPT !.dirs = @ \cup {r}],
                       IF r \notin sto.dirs THEN <<"f_mkdir">> ELSE <<>>,
                       e, backup_original, fail)
     ELSE SaveBackup(m, sto, <<>>, e, backup_original, fail)

fds_save(m, sto, e, backup_original, fail) ==
  SaveFrom(SaveCheck(m), m, sto, e, backup_original, fail)

(***************************************************************************)
(* fds_close: the save it is asked for, then everything reset; check is    *)
(* what the checks of that save return.  free(fds_raw_data) leaves no      *)
(* image: the next load clears the buffer before any use.                  *)
(***************************************************************************)
\* a close that returns the error of a failed save at once
CloseUnlessFailed(saved) ==
  IF saved.fr # "FR_OK" THEN saved
  ELSE CallResult([fds_stop(saved.m) EXCEPT !.state = "FDS_OFF", !.used_space = 0,
                                            !.block_count = 0, !.changed = 0,
                                            !.raw_data = ZeroImage],
                  saved.storage, saved.fr, saved.ops)

\* fds_close after the save: saved is what the save left
CloseReset(saved) ==
  CallResult([fds_stop(saved.m) EXCEPT !.state = "FDS_OFF", !.used_space = 0,
                                       !.block_count = 0, !.changed = 0,
                                       !.raw_data = ZeroImage],
             saved.storage, saved.fr, saved.ops)

\* the lines MEDIA_SET and WRITABLE_MEDIA released
MediaOut(m) == [m EXCEPT !.media_set_pin = GPIO_PIN_SET, !.writable_media_pin = GPIO_PIN_SET]

CloseFrom(check, m, sto, e, backup_original, save, fail) ==
  IF save # 0
    THEN CloseReset(SaveFrom(check, MediaOut(m), sto, e, backup_original, fail))
    ELSE CloseReset(CallResult(MediaOut(m), sto, "FR_OK", <<>>))

fds_close(m, sto, e, backup_original, save, fail) ==
  CloseFrom(SaveCheck(m), m, sto, e, backup_original, save, fail)

(***************************************************************************)
(* fds_load_side.                                                          *)
(***************************************************************************)
\* the storage calls of fds_load_side that may fail
LoadFailures == {"none", "open", "seek"}

\* what the foreground asks fds_load_side for: file, side, read-only, failing call
LoadInputs ==
  {<<2, 0>>, <<3, 0>>} \X {0} \X {"none"}
  \cup {<<2, 0>>} \X {1} \X {"none"}
  \cup {<<2, 0>>} \X {0} \X {"open"}

\* what fds_load_side leaves
LoadResult(m, res) == [m |-> m, fr |-> res]

\* an error return of fds_load_side through fds_close(0)
LoadFailed(m, sto, e, backup_original, res) ==
  LoadResult(fds_close(m, sto, e, backup_original, 0, "none").m, res)

\* fds_load_side from the block loop on: l is what the loop leaves
LoadLoop(m1, l, sto, e, backup_original) ==
  LET m2 == [m1 EXCEPT !.raw_data = l.raw,
                       !.block_offsets = [i \in BlockIndex |->
                                            IF i <= l.count THEN l.offs[i] ELSE @[i]],
                       !.block_count = l.count,
                       !.used_space = l.used]
  IN IF l.fr # "FR_OK" THEN LoadFailed(m2, sto, e, backup_original, l.fr)
     ELSE LoadResult(fds_check_pins(
                       [m2 EXCEPT !.state =
                          IF e.scan_media = 0 /\ e.rewind_speed = "REWIND_SPEED_TURBO"
                            THEN "FDS_READ_WAIT_READY_TIMER" ELSE "FDS_IDLE"], e),
                     "FR_OK")

\* fds_load_side from f_open on: l is what the size check and the loop make of the file
LoadOpened(m1, l, sto, e, backup_original, fail) ==
  IF fail = "open" THEN LoadFailed(m1, sto, e, backup_original, "FR_DISK_ERR")
  ELSE IF ~l.opened THEN LoadFailed(m1, sto, e, backup_original, l.fr)
  ELSE IF fail = "seek" THEN LoadResult(m1, "FR_DISK_ERR")
  ELSE LoadLoop(m1, l, sto, e, backup_original)

\* the file fds_load_side opens
LoadFile(sto, backup_original, filename) ==
  IF backup_original = "SAVES_EVERDRIVE" /\ sto.alt_exists[filename]
    THEN sto.alt[filename]
    ELSE sto.files[filename]

fds_load_side(m, sto, e, backup_original, filename, side, ro, fail) ==
  LoadOpened([fds_reset_reading(fds_close(m, sto, e, backup_original, 0, "none").m, e)
                EXCEPT !.ready_pin = GPIO_PIN_SET,
                       !.media_set_pin = GPIO_PIN_RESET,
                       !.readonly = ro,
                       !.writable_media_pin = IF ro # 0 THEN GPIO_PIN_SET ELSE GPIO_PIN_RESET,
                       !.not_ready_time = e.now,
                       !.filename = filename,
                       !.side = side],
             LoadImage(LoadFile(sto, backup_original, filename), side, m.block_offsets),
             sto, e, backup_original, fail)

(***************************************************************************)
(* The specification.                                                      *)
(***************************************************************************)
\* what the handlers see of the host lines, the tick and the settings
Now == [scan_media |-> scan_media_pin, write |-> write_pin, now |-> MaxTick,
        rewind_speed |-> fdskey_settings.rewind_speed]

\* fdskey_settings.backup_original, which only the storage calls read
BackupModes == {"SAVES_REWRITE", "SAVES_REWRITE_BACKUP", "SAVES_EVERDRIVE"}

\* the static initialisers of fdsemu.c; no disk: the output lines released
InitFds ==
  [state |-> "FDS_OFF", raw_data |-> ZeroImage, used_space |-> 0, block_count |-> 0,
   block_offsets |-> ZeroOffsets, clock |-> 0, current_byte |-> 0, current_bit |-> 0,
   last_value |-> 0, not_ready_time |-> 0, write_carrier |-> 0, current_block_end |-> 0,
   write_gap_skip |-> 0, changed |-> 0, last_action_time |-> 0, readonly |-> 0,
   filename |-> 1, side |-> 0,
   read_dma |-> FALSE, write_dma |-> FALSE,
   ready_pin |-> GPIO_PIN_SET, media_set_pin |-> GPIO_PIN_SET,
   writable_media_pin |-> GPIO_PIN_SET]

InitStorage ==
  [files |-> Roms, alt_exists |-> [r \in RomIds |-> FALSE],
   alt |-> [r \in RomIds |-> <<>>], dirs |-> {}]

Init ==
  /\ fds = InitFds
  /\ scan_media_pin = 1
  /\ write_pin = 1
  /\ fdskey_settings \in [rewind_speed : {"REWIND_SPEED_ORIGINAL", "REWIND_SPEED_TURBO"}]
  /\ storage = InitStorage
  /\ fr = "FR_OK"
  /\ bursts = 0
  /\ saves = 0
  /\ loads = 0
  /\ sent = <<>>

\* fds_load_side returns r
LoaderReturns(r) == fds' = r.m /\ fr' = r.fr

\* fds_save or fds_close returns r; the card changes at most MaxSaves times
ForegroundReturns(r) ==
  /\ r.storage # storage => saves < MaxSaves
  /\ fds' = r.m
  /\ storage' = r.storage
  /\ fr' = r.fr
  /\ saves' = IF r.storage = storage THEN saves ELSE saves + 1

(***************************************************************************)
(* fds_check_pins is to be called at every change of the two host lines    *)
(* and every 100 ms or so (the comment at its head): a change of a line    *)
(* is one step with the call it causes, and CheckPins is the periodic one. *)
(***************************************************************************)
\* the host starts or stops the motor
HostScanMedia ==
  /\ scan_media_pin' = 1 - scan_media_pin
  /\ fds' = fds_check_pins(fds, [Now EXCEPT !.scan_media = 1 - scan_media_pin])
  /\ UNCHANGED <<sent, write_pin, fdskey_settings, storage, fr, bursts, saves, loads>>

\* the host asserts or releases /WRITE
HostWrite ==
  /\ write_pin' = 1 - write_pin
  /\ fds' = fds_check_pins(fds, [Now EXCEPT !.write = 1 - write_pin])
  /\ UNCHANGED <<sent, scan_media_pin, fdskey_settings, storage, fr, bursts, saves, loads>>

(***************************************************************************)
(* A millisecond passes.  Time is measured back from the present:          *)
(* HAL_GetTick() reads MaxTick, and a millisecond passing moves the two    *)
(* time stamps back by one instead of moving the tick on.  A stamp stops   *)
(* at 0, MaxTick milliseconds ago, and every delay of the module is        *)
(* shorter than that.                                                      *)
(***************************************************************************)
Earlier(t) == IF t > 0 THEN t - 1 ELSE 0

Tick ==
  /\ fds' = [fds EXCEPT !.not_ready_time = Earlier(@), !.last_action_time = Earlier(@)]
  /\ UNCHANGED <<sent, scan_media_pin, write_pin, fdskey_settings, storage, fr, bursts, saves, loads>>

\* the foreground polls fds_check_pins
CheckPins ==
  /\ fds' = fds_check_pins(fds, Now)
  /\ UNCHANGED <<sent, scan_media_pin, write_pin, fdskey_settings, storage, fr, bursts, saves, loads>>

\* fds_dma_read_half_callback
ReadHalfCallback ==
  /\ fds.read_dma
  /\ fds' = fds_dma_fill_read_buffer(fds, Now, FDS_READ_BUFFER_SIZE \div 2)
  /\ UNCHANGED <<sent, scan_media_pin, write_pin, fdskey_settings, storage, fr, bursts, saves, loads>>

\* fds_dma_read_full_callback
ReadFullCallback ==
  /\ fds.read_dma
  /\ fds' = fds_dma_fill_read_buffer(fds, Now, FDS_READ_BUFFER_SIZE \div 2)
  /\ UNCHANGED <<sent, scan_media_pin, write_pin, fdskey_settings, storage, fr, bursts, saves, loads>>

(***************************************************************************)
(* What the capture DMA delivers in one half of fds_write_buffer, as the   *)
(* intervals between the captured time stamps: a run of short pulses       *)
(* (below FDS_THRESHOLD_1) or a run of long ones (FDS_THRESHOLD_2 and up). *)
(***************************************************************************)
HalfBuffer(pulse) == [k \in 1..(FDS_WRITE_BUFFER_SIZE \div 2) |-> pulse]

\* a half of pulses below FDS_THRESHOLD_1, and one of pulses of FDS_THRESHOLD_2
ShortBurst == HalfBuffer(FDS_THRESHOLD_1 - 1)
LongBurst == HalfBuffer(FDS_THRESHOLD_2)

WriteBursts == {ShortBurst, LongBurst}

\* a write callback parses the half the capture DMA has filled; the host sends
\* at most limit halves
WriteCallback(limit) ==
  /\ fds.write_dma
  /\ bursts < limit
  /\ \E pulses \in WriteBursts : fds' = fds_dma_parse_write_buffer(fds, Now, pulses)
  /\ bursts' = bursts + 1
  /\ UNCHANGED <<sent, scan_media_pin, write_pin, fdskey_settings, storage, fr, saves, loads>>

\* fds_dma_write_half_callback
WriteHalfCallback == WriteCallback(MaxWriteBursts)

\* fds_dma_write_full_callback
WriteFullCallback == WriteCallback(MaxWriteBursts)

\* the foreground loads a side of a ROM file
LoadSide ==
  /\ loads < MaxLoads
  /\ loads' = loads + 1
  /\ \E in \in LoadInputs, backup_original \in BackupModes :
       LoaderReturns(fds_load_side(fds, storage, Now, backup_original,
                                   in[1][1], in[1][2], in[2], in[3]))
  /\ UNCHANGED <<sent, scan_media_pin, write_pin, fdskey_settings, storage, bursts, saves>>

\* what the card and the settings are at a save: the setting backup_original
\* and the storage call that fails
SaveInputs ==
  (BackupModes \X {"none"}) \cup {<<"SAVES_REWRITE", "open">>, <<"SAVES_EVERDRIVE", "close">>}

\* the foreground saves when it sees FDS_SAVE_PENDING
Save ==
  /\ fds.state = "FDS_SAVE_PENDING"
  /\ \E check \in {SaveCheck(fds)}, in \in SaveInputs :
       ForegroundReturns(SaveFrom(check, fds, storage, Now, in[1], in[2]))
  /\ UNCHANGED <<sent, scan_media_pin, write_pin, fdskey_settings, bursts, loads>>

\* the foreground closes the disk without saving
CloseNoSave ==
  /\ ForegroundReturns(CloseFrom("FR_OK", fds, storage, Now, "SAVES_REWRITE", 0, "none"))
  /\ UNCHANGED <<sent, scan_media_pin, write_pin, fdskey_settings, bursts, loads>>

\* the foreground closes the disk with a save
CloseSave ==
  /\ \E check \in {SaveCheck(fds)}, backup_original \in BackupModes :
       ForegroundReturns(CloseFrom(check, fds, storage, Now, backup_original, 1, "none"))
  /\ UNCHANGED <<sent, scan_media_pin, write_pin, fdskey_settings, bursts, loads>>

Next ==
  \/ HostScanMedia
  \/ HostWrite
  \/ Tick
  \/ CheckPins
  \/ ReadHalfCallback
  \/ ReadFullCallback
  \/ WriteHalfCallback
  \/ WriteFullCallback
  \/ LoadSide
  \/ Save
  \/ CloseNoSave
  \/ CloseSave

Spec == Init /\ [][Next]_vars

(***************************************************************************)
(* The autosave: the host moves its two lines and writes, the foreground   *)
(* loads a disk and saves it whenever it sees FDS_SAVE_PENDING, and the    *)
(* periodic calls are made: fds_check_pins is polled every 100 ms or so    *)
(* and the millisecond tick runs on.  The host reads nothing and the       *)
(* foreground does not close the disk.                                     *)
(***************************************************************************)
FairNext ==
  \/ HostScanMedia
  \/ HostWrite
  \/ Tick
  \/ CheckPins
  \/ WriteHalfCallback
  \/ WriteFullCallback
  \/ LoadSide
  \/ Save

\* a call of fds_save would change something: ENABLED <<Save>>_vars
SaveEnabled ==
  /\ fds.state = "FDS_SAVE_PENDING"
  /\ \E check \in {SaveCheck(fds)}, in \in SaveInputs :
       \E r \in {SaveFrom(check, fds, storage, Now, in[1], in[2])} :
         /\ r.storage # storage => saves < MaxSaves
         /\ <<r.m, r.storage, r.fr>> # <<fds, storage, fr>>

\* weak fairness of Tick, CheckPins and Save; the last two are written out,
\* ENABLED <<CheckPins>>_vars being fds_check_pins(fds, Now) # fds
FairSpec ==
  /\ Init
  /\ [][FairNext]_vars
  /\ WF_vars(Tick)
  /\ ([]<>(fds_check_pins(fds, Now) = fds) \/ []<><<CheckPins>>_vars)
  /\ ([]<>(~SaveEnabled) \/ []<><<Save>>_vars)


(***************************************************************************)
(* The drive alone: one writable disk is loaded and the host reads and     *)
(* writes it; the foreground neither saves nor closes, and the host sends  *)
(* up to MaxStreamBursts halves of write pulses.                           *)
(***************************************************************************)
\* the foreground loads side 0 of the ROM with one file, writable
LoadDisk ==
  /\ loads < MaxLoads
  /\ loads' = loads + 1
  /\ LoaderReturns(fds_load_side(fds, storage, Now, "SAVES_REWRITE", 2, 0, 0, "none"))
  /\ UNCHANGED <<sent, scan_media_pin, write_pin, fdskey_settings, storage, bursts, saves>>

\* fds_dma_write_half_callback
StreamHalfCallback == WriteCallback(MaxStreamBursts)

\* fds_dma_write_full_callback
StreamFullCallback == WriteCallback(MaxStreamBursts)

DriveNext ==
  \/ HostScanMedia
  \/ HostWrite
  \/ Tick
  \/ CheckPins
  \/ ReadHalfCallback
  \/ ReadFullCallback
  \/ StreamHalfCallback
  \/ StreamFullCallback
  \/ LoadDisk

DriveSpec == Init /\ [][DriveNext]_vars


(***************************************************************************)
(* The loader: the foreground loads any side of any file of the card, with *)
(* any storage call failing, and the host only reads.                      *)
(***************************************************************************)
\* the foreground loads a side of a file
LoadRom ==
  /\ loads < MaxLoads
  /\ loads' = loads + 1
  /\ \E filename \in RomIds, side \in Sides, ro \in {0, 1}, fail \in LoadFailures :
       LoaderReturns(fds_load_side(fds, storage, Now, "SAVES_REWRITE",
                                   filename, side, ro, fail))
  /\ UNCHANGED <<sent, scan_media_pin, write_pin, fdskey_settings, storage, bursts, saves>>

LoadNext ==
  \/ HostScanMedia
  \/ Tick
  \/ CheckPins
  \/ ReadHalfCallback
  \/ ReadFullCallback
  \/ LoadRom

LoadSpec == Init /\ [][LoadNext]_vars


(***************************************************************************)
(* The drive with a host whose pulses are not all alike: besides the       *)
(* halves of short and of long pulses it sends a half of long pulses with  *)
(* one short pulse behind the gap, which shifts the bits that follow by    *)
(* one.                                                                    *)
(***************************************************************************)
\* long pulses, the fourth one short: the gap ends at the third pulse, the
\* fourth writes one bit and every later one writes two
SkewedBurst ==
  [k \in 1..(FDS_WRITE_BUFFER_SIZE \div 2) |->
     IF k = FDS_WRITE_GAP_SKIP_BITS + 2 THEN FDS_THRESHOLD_1 - 1 ELSE FDS_THRESHOLD_2]

\* a write callback parses such a half
SkewedCallback ==
  /\ fds.write_dma
  /\ bursts < MaxStreamBursts
  /\ fds' = fds_dma_parse_write_buffer(fds, Now, SkewedBurst)
  /\ bursts' = bursts + 1
  /\ UNCHANGED <<sent, scan_media_pin, write_pin, fdskey_settings, storage, fr, saves, loads>>

SkewNext ==
  \/ DriveNext
  \/ SkewedCallback

SkewSpec == Init /\ [][SkewNext]_vars


(***************************************************************************)
(* The two engines back to back: the host sends the bytes of sent as the   *)
(* read engine modulates them, behind the gap of block 0, and the write    *)
(* engine decodes them into block 0 of a loaded disk.                      *)
(***************************************************************************)
\* the bytes the host sends: one byte, or two with a few second bytes
CodecData == {<<a>> : a \in Byte} \cup {<<a, b>> : a \in Byte, b \in {0, 64, 128, 255}}

\* the gap of block 0 with the bytes of data behind it
SentImage(data) ==
  [k \in RawIndex |-> IF k >= FirstGapBytes /\ k < FirstGapBytes + Len(data)
                        THEN data[k - FirstGapBytes + 1]
                        ELSE LayGap(ZeroImage, 0, FirstGapBytes)[k]]

\* what length passes of the loop of fds_dma_fill_read_buffer store in fds_read_buffer
RECURSIVE ReadSlots(_, _, _, _)
ReadSlots(r, raw, e, length) ==
  IF length = 0 THEN <<>>
  ELSE IF length = 1
    THEN <<ReadSlot([clock |-> r.clock, raw_data |-> raw, current_byte |-> r.current_byte,
                     current_bit |-> r.current_bit, last_value |-> r.last_value])>>
  ELSE ReadSlots(r, raw, e, length \div 2)
       \o ReadSlots(ReadPhases(r, raw, FDS_MAX_SIDE_SIZE, e, length \div 2), raw, e,
                    length - (length \div 2))

\* the capture of a pause of cells half-bit cells between two impulses: two
\* cells are the 10us pause, three the 15us pause, four the 20us pause
CapturedPause(cells) ==
  IF cells <= 2 THEN FDS_THRESHOLD_1 - 1
  ELSE IF cells = 3 THEN FDS_THRESHOLD_2 - 1
  ELSE FDS_THRESHOLD_2

\* the pauses between the impulses of the slots from k on; since is the
\* number of cells since the last impulse, 0 before the first one
Captured(slots, k, since) ==
  LET impulses == {j \in k..Len(slots) : slots[j] # 0}
      pause(j) == IF \E i \in impulses : i < j
                    THEN j - (CHOOSE i \in impulses : i < j /\ \A h \in impulses : h < j => h <= i)
                    ELSE IF since = 0 THEN 0 ELSE since + (j - k)
      nth(n) == CHOOSE j \in impulses : Cardinality({i \in impulses : i <= j}) = n
      pauses == SelectSeq([n \in 1..Cardinality(impulses) |-> pause(nth(n))], LAMBDA c : c # 0)
  IN [n \in 1..Len(pauses) |-> CapturedPause(pauses[n])]

\* the pauses the write head sees when the gap and data are read out
Modulated(data, e) ==
  Captured(ReadSlots([clock |-> 0, current_byte |-> 0, current_bit |-> 0, last_value |-> 0,
                      rewound |-> FALSE],
                     SentImage(data), e, 16 * (FirstGapBytes + Len(data))),
           1, 0)

\* a disk is loaded with the motor on and /WRITE asserted: the write engine waits
\* in the gap of block 0
CodecInit ==
  /\ sent \in CodecData
  /\ scan_media_pin = 0
  /\ write_pin = 0
  /\ fdskey_settings \in [rewind_speed : {"REWIND_SPEED_ORIGINAL", "REWIND_SPEED_TURBO"}]
  /\ storage = InitStorage
  /\ fr = "FR_OK"
  /\ bursts = 0
  /\ saves = 0
  /\ loads = 1
  /\ fds = fds_load_side(InitFds, InitStorage, Now, "SAVES_REWRITE", 2, 0, 0, "none").m

\* the write engine parses the pauses of the gap, up to its terminator
HostSendsGap ==
  /\ bursts = 0
  /\ bursts' = 1
  /\ fds.write_dma
  /\ fds' = fds_dma_parse_write_buffer(fds, Now, Modulated(<<>>, Now))
  /\ UNCHANGED <<sent, scan_media_pin, write_pin, fdskey_settings, storage, fr, saves, loads>>

\* the write engine parses the pauses of the bytes of sent
HostSendsData ==
  /\ bursts = 1
  /\ bursts' = 2
  /\ fds.write_dma
  /\ fds' = fds_dma_parse_write_buffer(
              fds, Now,
              SubSeq(Modulated(sent, Now), Len(Modulated(<<>>, Now)) + 1,
                     Len(Modulated(sent, Now))))
  /\ UNCHANGED <<sent, scan_media_pin, write_pin, fdskey_settings, storage, fr, saves, loads>>

CodecNext ==
  \/ HostSendsGap
  \/ HostSendsData

CodecSpec == CodecInit /\ [][CodecNext]_vars


(***************************************************************************)
(* The drive with a disk whose file header gives the file size 65535, and  *)
(* a host that writes a file header of its own behind it.                  *)
(***************************************************************************)
\* one side with no file announced and the header of a file of 65535 bytes
RomHiddenFile ==
  PadTo(DiskInfoBlock \o FileAmountBlock(0) \o FileHeaderBlock(65535), FDS_ROM_SIDE_SIZE)

\* a file header block that gives the file size 107, with two bytes for its CRC
HeaderBytes == FileHeaderBlock(107) \o <<255, 255>>

\* the pulses of a gap and of the bytes of that block behind it
HeaderBurst == Modulated(HeaderBytes, [rewind_speed |-> "REWIND_SPEED_ORIGINAL"])

\* a write callback parses them
HeaderCallback ==
  /\ fds.write_dma
  /\ bursts < MaxStreamBursts
  /\ fds' = fds_dma_parse_write_buffer(fds, Now, HeaderBurst)
  /\ bursts' = bursts + 1
  /\ UNCHANGED <<sent, scan_media_pin, write_pin, fdskey_settings, storage, fr, saves, loads>>

\* the card holds that disk as the file the foreground loads
OverrunInit ==
  /\ fds = InitFds
  /\ scan_media_pin = 1
  /\ write_pin = 1
  /\ fdskey_settings \in [rewind_speed : {"REWIND_SPEED_ORIGINAL", "REWIND_SPEED_TURBO"}]
  /\ storage = [InitStorage EXCEPT !.files[2] = RomHiddenFile]
  /\ fr = "FR_OK"
  /\ bursts = 0
  /\ saves = 0
  /\ loads = 0
  /\ sent = <<>>

OverrunNext ==
  \/ HostScanMedia
  \/ HostWrite
  \/ Tick
  \/ CheckPins
  \/ ReadHalfCallback
  \/ ReadFullCallback
  \/ HeaderCallback
  \/ LoadDisk

OverrunSpec == OverrunInit /\ [][OverrunNext]_vars


(***************************************************************************)
(* The claims.                                                             *)
(***************************************************************************)
\* a write callback parses the half pulses
WriteStep(pulses) ==
  /\ fds.write_dma
  /\ bursts' = bursts + 1
  /\ fds' = fds_dma_parse_write_buffer(fds, Now, pulses)

\* C11: a write callback that finds the engine in FDS_WRITING_STOPPING and
\* parses FDS_MULTI_WRITE_UNLICENSED_BITS or more short pulses in a row leaves
\* it in FDS_WRITING_GAP behind the gap of the block that starts where the
\* block written before ended, with no change of a host line.
C11_ConsecutiveBlockWrite ==
  [][(fds.state = "FDS_WRITING_STOPPING" /\ WriteStep(ShortBurst))
     => /\ fds'.state = "FDS_WRITING_GAP"
        /\ \E b \in BlockIndex :
             /\ fds'.block_offsets[b] = fds.current_block_end
             /\ fds'.current_byte = fds.current_block_end + GapLength(b)
        /\ scan_media_pin' = scan_media_pin
        /\ write_pin' = write_pin]_vars


\* C12: in FDS_READ_WAIT_READY_TIMER with the motor on and /WRITE released, a
\* call of fds_check_pins asserts READY and makes the state FDS_READING when
\* the tick has reached fds_not_ready_time plus the pause of the rewind mode,
\* and leaves the state and the READY line alone at any earlier tick.
C12_ReadyWhenPauseReached ==
  (fds.state = "FDS_READ_WAIT_READY_TIMER" /\ scan_media_pin = 0 /\ write_pin = 1)
    => IF Now.now >= fds.not_ready_time
                     + (IF fdskey_settings.rewind_speed = "REWIND_SPEED_TURBO"
                          THEN FDS_NOT_READY_TIME
                          ELSE FDS_NOT_READY_TIME_ORIGINAL)
         THEN /\ fds_check_pins(fds, Now).state = "FDS_READING"
              /\ fds_check_pins(fds, Now).ready_pin = GPIO_PIN_RESET
         ELSE /\ fds_check_pins(fds, Now).state = fds.state
              /\ fds_check_pins(fds, Now).ready_pin = fds.ready_pin

\* what fds_check_pins may be called with: the periodic call, and the call at
\* a change of /SCAN_MEDIA or of /WRITE
PinCalls ==
  {Now, [Now EXCEPT !.scan_media = 1 - scan_media_pin], [Now EXCEPT !.write = 1 - write_pin]}

\* C13: called in FDS_IDLE with the motor on and /WRITE released,
\* fds_check_pins goes to FDS_READ_WAIT_READY_TIMER with READY deasserted,
\* fds_not_ready_time = now and the read cursor reset when the rewind mode is
\* TURBO or fds_current_byte is 0; otherwise it starts the read engine and the
\* state is FDS_READ_WAIT_READY, READY still deasserted.
C13_IdleStartsReading ==
  \A e \in PinCalls :
    (fds.state = "FDS_IDLE" /\ e.scan_media = 0 /\ e.write = 1)
      => IF e.rewind_speed = "REWIND_SPEED_TURBO" \/ fds.current_byte = 0
           THEN /\ fds_check_pins(fds, e).state = "FDS_READ_WAIT_READY_TIMER"
                /\ fds_check_pins(fds, e).ready_pin = GPIO_PIN_SET
                /\ fds_check_pins(fds, e).not_ready_time = e.now
                /\ fds_check_pins(fds, e).current_byte = 0
                /\ fds_check_pins(fds, e).current_bit = 0
                /\ fds_check_pins(fds, e).clock = 0
                /\ fds_check_pins(fds, e).last_value = 0
           ELSE /\ fds_check_pins(fds, e).read_dma
                /\ fds_check_pins(fds, e).state = "FDS_READ_WAIT_READY"
                /\ fds_check_pins(fds, e).ready_pin = GPIO_PIN_SET

\* the read engine was started in the middle of the disk and waits for the rewind
C13_WaitsForRewind ==
  /\ fds.state = "FDS_READ_WAIT_READY"
  /\ fds.read_dma
  /\ fds.current_byte # 0
  /\ fds.ready_pin = GPIO_PIN_SET

\* C14: called with the motor off, fds_check_pins changes nothing in FDS_OFF
\* and in FDS_WRITING, and from FDS_READ_WAIT_READY_TIMER, FDS_READ_WAIT_READY,
\* FDS_READING, FDS_WRITING_GAP and FDS_WRITING_STOPPING it stops both engines,
\* deasserts READY and makes the state FDS_IDLE, with the read cursor at byte
\* 0 in TURBO mode.
C14_MotorOffStops ==
  \A e \in PinCalls :
    e.scan_media = 1
      => /\ fds.state \in {"FDS_OFF", "FDS_WRITING"} => fds_check_pins(fds, e) = fds
         /\ fds.state \in {"FDS_READ_WAIT_READY_TIMER", "FDS_READ_WAIT_READY", "FDS_READING",
                           "FDS_WRITING_GAP", "FDS_WRITING_STOPPING"}
              => /\ fds_check_pins(fds, e).state = "FDS_IDLE"
                 /\ ~fds_check_pins(fds, e).read_dma
                 /\ ~fds_check_pins(fds, e).write_dma
                 /\ fds_check_pins(fds, e).ready_pin = GPIO_PIN_SET
                 /\ e.rewind_speed = "REWIND_SPEED_TURBO"
                      => fds_check_pins(fds, e).current_byte = 0

\* the motor was stopped in FDS_WRITING and the write engine runs on
C14_WritingOutlastsMotor ==
  /\ fds.state = "FDS_WRITING"
  /\ scan_media_pin = 1
  /\ fds.write_dma

\* C15: a load that returns FR_OK with the file amount block loaded leaves at
\* least min_blocks blocks, min_blocks being twice the file count of that block
\* plus 2: a side that stops short of it is refused.
C15_AcceptedSideHasMinBlocks ==
  [][(loads' = loads + 1 /\ fr' = "FR_OK" /\ fds'.block_count >= 2)
     => fds'.block_count
          >= 2 * Peek(fds'.raw_data, OffsetAt(fds'.block_offsets, 1) + NextGapBytes + 1) + 2]_vars

\* C16: a load returns FR_OK only with block 0 of the side loaded and the
\* signature "*NINTENDO-HVC*" at bytes 1..14 of its payload.
C16_AcceptedSideHasSignature ==
  [][(loads' = loads + 1 /\ fr' = "FR_OK")
     => /\ fds'.block_count >= 1
        /\ SignatureOk(fds'.raw_data, OffsetAt(fds'.block_offsets, 0) + FirstGapBytes)]_vars

\* where block i goes in the side of the file when every block takes its
\* payload and tail more bytes
RECURSIVE FileOffset(_, _, _)
FileOffset(m, i, tail) ==
  IF i = 0 THEN 0
  ELSE FileOffset(m, i - 1, tail)
       + fds_get_block_size(m.raw_data, m.block_offsets, i - 1, FALSE, FALSE) + tail

\* the file holds the payload of block i of the image and tail bytes behind
\* it, at its place in side m.side behind the header of the file
BlockStoredAt(file, m, i, tail) ==
  LET at == (Len(file) % FDS_ROM_SIDE_SIZE) + m.side * FDS_ROM_SIDE_SIZE + FileOffset(m, i, tail)
      from == OffsetAt(m.block_offsets, i) + GapLength(i)
      n == fds_get_block_size(m.raw_data, m.block_offsets, i, FALSE, FALSE) + tail
  IN /\ at + n <= Len(file)
     /\ \A k \in 0..(n - 1) : file[at + k + 1] = Peek(m.raw_data, from + k)

\* fds_save returns FR_OK for a changed image
SavedStep ==
  /\ fds.state = "FDS_SAVE_PENDING"
  /\ fds.changed = 1
  /\ fds'.changed = 0
  /\ fds'.state # "FDS_OFF"
  /\ fr' = "FR_OK"
  /\ loads' = loads

\* the files a save leaves for the ROM of the image: the ROM file and the
\* file kept beside it
SavedFiles ==
  {storage'.files[fds.filename]}
  \cup (IF storage'.alt_exists[fds.filename] THEN {storage'.alt[fds.filename]} ELSE {})

StoredBytes(n) ==
  \A k \in 1..n : Peek(fds.raw_data, FirstGapBytes + k - 1) = sent[k]

\* C18 as stated: the write engine, in FDS_WRITING with carrier 0, stores
\* every bit of the sequence whose pauses it is fed, in order, LSB first.
C18_RoundTrip ==
  bursts = 2 => /\ StoredBytes(Len(sent))
                /\ fds.current_byte = FirstGapBytes + Len(sent)
                /\ fds.current_bit = 0

\* C18: the write engine stores every bit of the sequence, in order, LSB
\* first, but a last 0 bit behind a 1 bit: that bit has no impulse, and the
\* seven bits before it are in the top of the image byte.
C18_RoundTripButLastZero ==
  bursts = 2
    => IF sent[Len(sent)] \in 64..127
         THEN /\ StoredBytes(Len(sent) - 1)
              /\ fds.current_byte = FirstGapBytes + Len(sent) - 1
              /\ fds.current_bit = 7
              /\ Peek(fds.raw_data, fds.current_byte) \div 2 = sent[Len(sent)]
         ELSE /\ StoredBytes(Len(sent))
              /\ fds.current_byte = FirstGapBytes + Len(sent)
              /\ fds.current_bit = 0

\* two bytes are stored, the first with a 0 bit behind a 1 bit at its end
C18_TwoBytesStored ==
  /\ bursts = 2
  /\ Len(sent) = 2
  /\ sent[1] \in 64..127
  /\ sent[2] = 255
  /\ StoredBytes(2)
  /\ fds.state = "FDS_WRITING"

\* C19: called in any state, with or without a save, fds_close returns FR_OK
\* or what the save it attempted returned, and leaves the state FDS_OFF, both
\* engines stopped, READY, MEDIA_SET and WRITABLE_MEDIA deasserted,
\* fds_block_count = 0, fds_used_space = 0 and fds_changed = 0, also when the
\* save failed.
C19_CloseResetsAll ==
  \A check \in {SaveCheck(fds)}, in \in SaveInputs, save \in {0, 1} :
    LET closed == CloseFrom(check, fds, storage, Now, in[1], save, in[2])
    IN /\ closed.m.state = "FDS_OFF"
       /\ ~closed.m.read_dma
       /\ ~closed.m.write_dma
       /\ closed.m.ready_pin = GPIO_PIN_SET
       /\ closed.m.media_set_pin = GPIO_PIN_SET
       /\ closed.m.writable_media_pin = GPIO_PIN_SET
       /\ closed.m.block_count = 0
       /\ closed.m.used_space = 0
       /\ closed.m.changed = 0
       /\ closed.fr = IF save = 0 THEN "FR_OK"
                      ELSE SaveFrom(check, MediaOut(fds), storage, Now, in[1], in[2]).fr

\* the disk is out after a close whose save found a wrong CRC
C19_ClosedAfterFailedSave ==
  /\ fr = "FDSR_WRONG_CRC"
  /\ fds.state = "FDS_OFF"
  /\ fds.block_count = 0
  /\ fds.changed = 0
  /\ fds.media_set_pin = GPIO_PIN_SET

\* the bits a half of equal pulses makes the write engine store: none while
\* the gap is skipped, one for a short pause and two for a long one after it
BurstBits(pulses) ==
  IF fds.state = "FDS_WRITING"
    THEN IF pulses = LongBurst THEN 2 * Len(pulses) ELSE Len(pulses)
    ELSE IF pulses = LongBurst
           THEN 2 * (Len(pulses) - (FDS_WRITE_GAP_SKIP_BITS - fds.write_gap_skip) - 1)
           ELSE 0

\* the half carries the write head to the end of the block
ReachesBlockEnd(pulses) ==
  /\ fds.state \in {"FDS_WRITING_GAP", "FDS_WRITING"}
  /\ fds.current_byte < fds.current_block_end
  /\ 8 * (fds.current_block_end - fds.current_byte)
       - (IF fds.state = "FDS_WRITING" THEN fds.current_bit ELSE 0) <= BurstBits(pulses)

\* C20: a write callback that carries the head to the end of the block ends
\* it in one of three ways: with the motor off everything is stopped and the
\* state is FDS_IDLE; with the motor on and /WRITE asserted the state is
\* FDS_WRITING_STOPPING with fds_write_gap_skip = 0 (as long as long pauses
\* follow); with the motor on and /WRITE released the write engine is stopped,
\* the read engine started and the state is FDS_READING.  A call of
\* fds_check_pins in FDS_WRITING_STOPPING with the motor on and /WRITE released
\* stops the write engine and makes the state FDS_READING.
C20_BlockEndOutcomes ==
  /\ [][\A pulses \in WriteBursts :
          (ReachesBlockEnd(pulses) /\ WriteStep(pulses))
            => IF scan_media_pin = 1
                 THEN /\ fds'.state = "FDS_IDLE"
                      /\ ~fds'.read_dma
                      /\ ~fds'.write_dma
                      /\ fds'.ready_pin = GPIO_PIN_SET
               ELSE IF write_pin = 0
                 THEN pulses = LongBurst
                        => /\ fds'.state = "FDS_WRITING_STOPPING"
                           /\ fds'.write_gap_skip = 0
               ELSE /\ fds'.state = "FDS_READING"
                    /\ fds'.read_dma
                    /\ ~fds'.write_dma]_vars
  /\ [](\A e \in PinCalls :
          (fds.state = "FDS_WRITING_STOPPING" /\ e.scan_media = 0 /\ e.write = 1)
            => /\ fds_check_pins(fds, e).state = "FDS_READING"
               /\ ~fds_check_pins(fds, e).write_dma)

\* the block ended with the motor off: the drive is stopped with the head at
\* the end of the block, where fds_check_pins would have rewound it
C20_StoppedAtBlockEnd ==
  /\ fdskey_settings.rewind_speed = "REWIND_SPEED_TURBO"
  /\ fds.state = "FDS_IDLE"
  /\ scan_media_pin = 1
  /\ bursts = 2
  /\ fds.changed = 1
  /\ fds.current_byte = fds.current_block_end
  /\ ~fds.write_dma


\* C1: the read engine (the PWM DMA) and the write engine (the capture DMA)
\* never run together, whatever the order of the calls of fds_check_pins,
\* fds_load_side, fds_save, fds_close and the DMA callbacks.
C1_EnginesExclusive == ~(fds.read_dma /\ fds.write_dma)

\* the write engine has parsed pulses into the image and the read engine runs
\* again on the same disk
C1_ReadingAfterWriting ==
  /\ fds.read_dma
  /\ ~fds.write_dma
  /\ fds.changed = 1
  /\ bursts > 0


\* C2: FDS_SAVE_PENDING is entered only with the motor off and fds_changed
\* set, and while the state is FDS_SAVE_PENDING with fds_changed set no engine
\* runs and neither a call of fds_check_pins, with any values of /SCAN_MEDIA
\* and /WRITE, nor a DMA callback starts an engine or changes the image, the
\* block offsets, the block count or the used space.
C2_SavePendingIsQuiet ==
  /\ [][(fds.state # "FDS_SAVE_PENDING" /\ fds'.state = "FDS_SAVE_PENDING")
          => (scan_media_pin' = 1 /\ fds'.changed # 0)]_vars
  /\ []((fds.state = "FDS_SAVE_PENDING" /\ fds.changed # 0)
          => /\ ~fds.read_dma
             /\ ~fds.write_dma
             /\ \A after \in {fds_check_pins(fds, [Now EXCEPT !.scan_media = s, !.write = w]) :
                                s \in {0, 1}, w \in {0, 1}}
                       \cup {fds_dma_fill_read_buffer(fds, Now, FDS_READ_BUFFER_SIZE \div 2)}
                       \cup {fds_dma_parse_write_buffer(fds, Now, pulses) : pulses \in WriteBursts} :
                  /\ ~after.read_dma
                  /\ ~after.write_dma
                  /\ after.raw_data = fds.raw_data
                  /\ after.block_offsets = fds.block_offsets
                  /\ after.block_count = fds.block_count
                  /\ after.used_space = fds.used_space)

\* the host has started the motor again while the save is pending
C2_MotorOnWhileSavePending ==
  /\ fds.state = "FDS_SAVE_PENDING"
  /\ fds.changed # 0
  /\ scan_media_pin = 0


\* C21: a pass of the loop of fds_dma_fill_read_buffer rewinds exactly when it
\* advances fds_current_byte and the new value is 0 or, in TURBO mode, larger
\* than fds_used_space + FDS_NOT_READY_BYTES; the rewinding pass leaves the
\* read cursor as fds_reset_reading sets it, and the callback that holds it
\* leaves READY deasserted, fds_not_ready_time = now and the state
\* FDS_READ_WAIT_READY_TIMER; a callback without such a pass leaves the three
\* alone, and one that starts in a state other than FDS_READING and
\* FDS_READ_WAIT_READY changes nothing.
C21_RewindAtEndOrBeyondData ==
  LET half == FDS_READ_BUFFER_SIZE \div 2
      after == fds_dma_fill_read_buffer(fds, Now, half)
      turbo == fdskey_settings.rewind_speed = "REWIND_SPEED_TURBO"
      \* the passes that end a byte and, of the others, those in the middle of one
      Passes == {k \in 0..(half - 1) : (fds.current_bit + k) % 8 = 7}
      Before(k) == [ReadPhases([clock |-> fds.clock, current_byte |-> fds.current_byte,
                                current_bit |-> fds.current_bit,
                                last_value |-> fds.last_value, rewound |-> FALSE],
                               fds.raw_data, fds.used_space, Now, k)
                      EXCEPT !.rewound = FALSE]
      Advanced(r) == (r.current_byte + 1) % FDS_MAX_SIDE_SIZE
      Due(r) == /\ r.current_bit = 15
                /\ \/ Advanced(r) = 0
                   \/ turbo /\ Advanced(r) > fds.used_space + FDS_NOT_READY_BYTES
      Pass(r) == ReadPhase(r, fds.raw_data, fds.used_space, Now)
  IN IF fds.state \in {"FDS_READING", "FDS_READ_WAIT_READY"}
       THEN /\ \A k \in Passes :
                 /\ Pass(Before(k)).rewound = Due(Before(k))
                 /\ Due(Before(k))
                      => /\ Pass(Before(k)).clock = 0
                         /\ Pass(Before(k)).current_bit = 0
                         /\ Pass(Before(k)).last_value = 0
                         /\ Pass(Before(k)).current_byte
                              = IF turbo THEN 0 ELSE Advanced(Before(k))
            /\ IF \E k \in Passes : Due(Before(k))
                 THEN /\ after.state = "FDS_READ_WAIT_READY_TIMER"
                      /\ after.ready_pin = GPIO_PIN_SET
                      /\ after.not_ready_time = Now.now
                 ELSE /\ after.state = fds.state
                      /\ after.ready_pin = fds.ready_pin
                      /\ after.not_ready_time = fds.not_ready_time
       ELSE after = fds

\* the head has run over the end of the disk in ORIGINAL mode: the read
\* engine still runs and the drive is not ready
C21_RewoundAtEndOfDisk ==
  /\ fds.state = "FDS_READ_WAIT_READY_TIMER"
  /\ fds.read_dma
  /\ fds.ready_pin = GPIO_PIN_SET
  /\ fdskey_settings.rewind_speed = "REWIND_SPEED_ORIGINAL"


\* C22: a write callback that starts in FDS_WRITING_GAP or FDS_WRITING and
\* parses pulses that start no further block changes image bytes of the block
\* being written only: every byte it changes lies at or behind the offset of
\* a block that starts before the head and before fds_current_block_end, also
\* when the first of the two bits of one pulse completes the block.
C22_WritesStayInBlock ==
  [][(/\ fds.state \in {"FDS_WRITING_GAP", "FDS_WRITING"}
      /\ WriteStep(LongBurst) \/ WriteStep(SkewedBurst))
     => \A k \in RawIndex :
          fds'.raw_data[k] # fds.raw_data[k]
            => /\ k < fds.current_block_end
               /\ \E b \in 0..(fds.block_count - 1) :
                    /\ OffsetAt(fds.block_offsets, b) <= k
                    /\ OffsetAt(fds.block_offsets, b) <= fds.current_byte]_vars


\* C23: the READY line agrees with the state: it is not asserted in FDS_OFF,
\* FDS_IDLE, FDS_SAVE_PENDING, FDS_READ_WAIT_READY_TIMER and
\* FDS_READ_WAIT_READY, and it is asserted in FDS_READING.
C23_ReadyAgreesWithState ==
  /\ fds.state \in {"FDS_OFF", "FDS_IDLE", "FDS_SAVE_PENDING", "FDS_READ_WAIT_READY_TIMER",
                    "FDS_READ_WAIT_READY"}
       => fds.ready_pin = GPIO_PIN_SET
  /\ fds.state = "FDS_READING" => fds.ready_pin = GPIO_PIN_RESET


\* C24: when reading resumes after the not-ready pause, from
\* FDS_READ_WAIT_READY_TIMER to FDS_READING, the read cursor is as
\* fds_reset_reading left it: clock, last value and bit 0 and, in TURBO mode,
\* byte 0.
C24_ResumesFromResetCursor ==
  [][(fds.state = "FDS_READ_WAIT_READY_TIMER" /\ fds'.state = "FDS_READING")
     => /\ fds'.clock = 0
        /\ fds'.last_value = 0
        /\ fds'.current_bit = 0
        /\ fdskey_settings.rewind_speed = "REWIND_SPEED_TURBO" => fds'.current_byte = 0]_vars


\* C25: the cursors stay inside their arrays: in every reachable state
\* fds_current_byte is an index of the image buffer, fds_block_count is at
\* most FDS_MAX_BLOCKS and the offset of every block is an index of the image
\* buffer.
C25_CursorsInRange ==
  /\ fds.current_byte \in RawIndex
  /\ fds.block_count \in 0..FDS_MAX_BLOCKS
  /\ \A b \in 0..(fds.block_count - 1) : OffsetAt(fds.block_offsets, b) \in RawIndex


\* C8: fds_used_space is at most FDS_MAX_SIDE_SIZE in every reachable state.
C8_UsedSpaceInRange == fds.used_space <= FDS_MAX_SIDE_SIZE

\* C9: whenever the recomputed fds_used_space exceeds FDS_MAX_SIDE_SIZE the
\* drive is fully stopped: the state is FDS_IDLE, neither engine runs and
\* READY is released.
C9_OverflowStopsDrive ==
  fds.used_space > FDS_MAX_SIDE_SIZE =>
    /\ fds.state = "FDS_IDLE"
    /\ ~fds.read_dma
    /\ ~fds.write_dma
    /\ fds.ready_pin = GPIO_PIN_SET


\* C7: the block index agrees with the image: block 0 starts at byte 0, and
\* every further block starts where the block before it ends, the size of a
\* file data block being read from the file header block before it.
C7_BlockIndexConsistent ==
  /\ fds.block_count > 0 => OffsetAt(fds.block_offsets, 0) = 0
  /\ \A i \in 0..(fds.block_count - 2) :
       OffsetAt(fds.block_offsets, i + 1)
         = OffsetAt(fds.block_offsets, i)
           + fds_get_block_size(fds.raw_data, fds.block_offsets, i, TRUE, TRUE)


\* C10: a step of the write engine that changes a byte of the image leaves
\* fds_changed set.
C10_WrittenImageIsDirty ==
  [][(loads' = loads /\ fds'.raw_data # fds.raw_data) => fds'.changed # 0]_vars


\* C6 as stated: whenever a block's stored CRC differs from the CRC of its
\* payload, fds_save returns FDSR_WRONG_CRC without a storage call that
\* creates or changes a file or a directory, for every setting of
\* backup_original.
C6_BadCrcReturnsWrongCrc ==
  (\E i \in 0..(fds.block_count - 1) : ~BlockCrcOk(fds, i)) =>
    \A backup_original \in BackupModes :
      LET r == SaveFrom(SaveCheck(fds), fds, storage, Now, backup_original, "none")
      IN r.fr = "FDSR_WRONG_CRC" /\ r.ops = <<>> /\ r.storage = storage

\* C6: whenever the image is changed and writable and a block's stored CRC
\* differs from the CRC of its payload, fds_save returns FDSR_WRONG_CRC
\* without a storage call that creates or changes a file or a directory and
\* with the card as it was, for every setting of backup_original.
C6_DirtyBadCrcReturnsWrongCrc ==
  (/\ fds.changed # 0
   /\ fds.readonly = 0
   /\ \E i \in 0..(fds.block_count - 1) : ~BlockCrcOk(fds, i)) =>
    \A backup_original \in BackupModes :
      LET r == SaveFrom(SaveCheck(fds), fds, storage, Now, backup_original, "none")
      IN r.fr = "FDSR_WRONG_CRC" /\ r.ops = <<>> /\ r.storage = storage /\ r.m = fds

\* a save has returned FDSR_WRONG_CRC for a changed, writable image
C6_SaveRefusedForCrc ==
  /\ fr = "FDSR_WRONG_CRC"
  /\ fds.state = "FDS_SAVE_PENDING"
  /\ fds.changed # 0
  /\ fds.readonly = 0
  /\ \E i \in 0..(fds.block_count - 1) : ~BlockCrcOk(fds, i)


\* C5: a save the foreground makes in FDS_SAVE_PENDING that fails, with
\* FDSR_READ_ONLY, FDSR_WRONG_CRC or the error of a storage call, leaves
\* fds_changed set, and once the autosave delay has passed fds_check_pins
\* with the motor off has the module in FDS_SAVE_PENDING again, fds_changed
\* still set.
C5_FailedSaveIsOfferedAgain ==
  fds.state = "FDS_SAVE_PENDING" =>
    \E check \in {SaveCheck(fds)} :
      \A backup_original \in BackupModes,
         fail \in {"none", "mkdir", "backup", "open", "write", "close"} :
        LET r == SaveFrom(check, fds, storage, Now, backup_original, fail)
            later == fds_check_pins([r.m EXCEPT !.last_action_time = 0],
                                    [Now EXCEPT !.scan_media = 1])
        IN r.fr # "FR_OK" =>
             /\ r.m.changed # 0
             /\ later.state = "FDS_SAVE_PENDING"
             /\ later.changed # 0

\* a storage call of a save has failed and the save is pending again
C5_PendingAgainAfterStorageError ==
  /\ fr = "FR_DISK_ERR"
  /\ fds.state = "FDS_SAVE_PENDING"
  /\ fds.changed # 0


\* C3 as stated: with a foreground that calls fds_save whenever the state is
\* FDS_SAVE_PENDING, FDS_SAVE_PENDING always leads to fds_changed cleared and
\* the state FDS_IDLE.
C3_SavePendingLeadsToIdle ==
  (fds.state = "FDS_SAVE_PENDING") ~> (fds.state = "FDS_IDLE" /\ fds.changed = 0)

\* C3: a fds_save that clears fds_changed in FDS_SAVE_PENDING leaves the
\* state FDS_IDLE with the motor off, and what fds_check_pins makes of
\* FDS_IDLE with the motor on; a fds_save refused with FDSR_READ_ONLY or
\* FDSR_WRONG_CRC leaves the state FDS_SAVE_PENDING and fds_changed set; and
\* with a foreground that calls fds_save whenever the state is
\* FDS_SAVE_PENDING, a FDS_SAVE_PENDING whose image passes the checks of
\* fds_save is always left.
C3_SavedLeavesSavePending ==
  /\ [][/\ (fds.state = "FDS_SAVE_PENDING" /\ fds.changed # 0 /\ fds'.changed = 0
            /\ loads' = loads)
             => /\ fr' = "FR_OK"
                /\ fds'.state # "FDS_SAVE_PENDING"
                /\ scan_media_pin = 1 => fds'.state = "FDS_IDLE"
        /\ (fds.state = "FDS_SAVE_PENDING" /\ fr' # fr
            /\ fr' \in {"FDSR_READ_ONLY", "FDSR_WRONG_CRC"})
             => (fds'.state = "FDS_SAVE_PENDING" /\ fds'.changed # 0)]_vars
  /\ ((fds.state = "FDS_SAVE_PENDING" /\ SaveCheck(fds) = "go")
        ~> (fds.state # "FDS_SAVE_PENDING"))

\* the image was saved with the motor off and the drive is idle again
C3_IdleAfterSave ==
  /\ fds.state = "FDS_IDLE"
  /\ fds.changed = 0
  /\ scan_media_pin = 1
  /\ saves > 0
  /\ fr = "FR_OK"

\* C4 as stated: whenever the image is changed and the motor is off, the
\* state FDS_SAVE_PENDING is reached, unless the host starts the motor again
\* or the disk is loaded anew.
C4_DirtyMotorOffLeadsToSavePending ==
  (fds.changed # 0 /\ scan_media_pin = 1)
    ~> (fds.state = "FDS_SAVE_PENDING" \/ scan_media_pin = 0 \/ fds.changed = 0)

\* C4: whenever the image is changed, the motor is off and the state is not
\* FDS_WRITING, the state FDS_SAVE_PENDING is reached, unless the host starts
\* the motor again or the disk is loaded anew.
C4_DirtyStoppedLeadsToSavePending ==
  (fds.changed # 0 /\ scan_media_pin = 1 /\ fds.state # "FDS_WRITING")
    ~> (fds.state = "FDS_SAVE_PENDING" \/ scan_media_pin = 0 \/ fds.changed = 0)

\* the motor is off and the save of what the host wrote is pending
C4_SavePendingAfterWriting ==
  /\ fds.state = "FDS_SAVE_PENDING"
  /\ fds.changed # 0
  /\ scan_media_pin = 1
  /\ bursts > 0

=============================================================================
